---- MODULE Spec2Model ----
(***************************************************************************)
(* A model of src/src/compiler.ts: the Define construction, the override   *)
(* parser, the clang diagnostic-output parser, the two fetch strategies,   *)
(* the compiler factory and the clone-on-read accessors.                   *)
(*                                                                         *)
(* A JavaScript string is a sequence of one-character strings, so that     *)
(* indexOf, substring, trim, startsWith, endsWith and split are computed   *)
(* character by character as the runtime computes them.                    *)
(***************************************************************************)
EXTENDS Integers, Sequences, FiniteSets, TLC

VARIABLES
    pc,               \* which operation has run: "init", "done", or a fetch position
    text,             \* buildDefine: the text argument
    splitter,         \* buildDefine: the splitter argument
    define,           \* buildDefine: the returned Define
    cmdLine,          \* addCompilerArgumentsToConfig: the command line (or Undefined)
    forceIncludeArg,  \* addCompilerArgumentsToConfig: the forced-include flag
    config,           \* addCompilerArgumentsToConfig: the CompileConfig it mutates
    config0,          \* the value of config before the call
    args,             \* the tokens splitCmdLine returned in the call
    output,           \* parseCompilerDefaults: the captured text
    defaults,         \* parseCompilerDefaults / fetch: the CompileConfig being filled
    defaults0,        \* the value of defaults before the call
    buildConfig,      \* Compiler.create: the build configuration map
    fileType,         \* Compiler.create: the FileType argument
    result,           \* fetch: the ProcessResult of exec
    compiler,         \* the Compiler object create returned, or Undefined
    error,            \* the Error create threw, or Undefined
    execs,            \* how many external processes have been launched
    heap,             \* objects by address: Set, Map and Define objects
    clones,           \* the CompileConfigs getDefaultConfiguration returned
    paths,            \* the Sets getIncludePaths returned
    steps             \* operations applied to the compiler object so far

vars == <<pc, text, splitter, define, cmdLine, forceIncludeArg, config, config0,
          args, output, defaults, defaults0, buildConfig, fileType, result,
          compiler, error, execs, heap, clones, paths, steps>>

defineVars == <<text, splitter, define>>
argsVars == <<cmdLine, forceIncludeArg, config, config0, args>>
parseVars == <<output, defaults, defaults0>>
createVars == <<buildConfig, fileType, result, compiler, error, execs>>
cloneVars == <<heap, clones, paths, steps>>

\* The value of a variable an operation does not use, and JavaScript's undefined.
Undefined == "undefined"

\* An undefined string argument: a sequence, as strings are, that is no string.
UndefinedString == <<Undefined>>

(***************************************************************************)
(* Bounds of the model.                                                    *)
(***************************************************************************)
MaxTextLen == 3
MaxWords == 3
MaxLines == 4
MaxStreamLines == 2
MaxClones == 2
MaxSteps == 4

(***************************************************************************)
(* JavaScript string primitives on sequences of characters.                *)
(***************************************************************************)
Min(a, b) == IF a < b THEN a ELSE b
Max(a, b) == IF a > b THEN a ELSE b

\* String.prototype.substring(start, end): both clamped to [0, length] and swapped
\* when start > end.
Substring(s, start, end) ==
    LET a == Min(Max(start, 0), Len(s))
        b == Min(Max(end, 0), Len(s))
    IN  SubSeq(s, Min(a, b) + 1, Max(a, b))

\* String.prototype.substring(start): to the end of the string.
SubstringFrom(s, start) == Substring(s, start, Len(s))

\* String.prototype.startsWith(prefix)
StartsWith(s, prefix) ==
    /\ Len(prefix) <= Len(s)
    /\ SubSeq(s, 1, Len(prefix)) = prefix

\* String.prototype.endsWith(suffix)
EndsWith(s, suffix) ==
    /\ Len(suffix) <= Len(s)
    /\ SubSeq(s, Len(s) - Len(suffix) + 1, Len(s)) = suffix

\* String.prototype.charAt(i): the empty string past the end.
CharAt(s, i) == IF i >= 0 /\ i < Len(s) THEN s[i + 1] ELSE ""

\* String.prototype.indexOf(sub): a scan from the left, -1 when sub does not occur.
RECURSIVE IndexOfFrom(_, _, _)
IndexOfFrom(s, sub, i) ==
    IF i + Len(sub) > Len(s) THEN -1
    ELSE IF SubSeq(s, i + 1, i + Len(sub)) = sub THEN i
    ELSE IndexOfFrom(s, sub, i + 1)

IndexOf(s, sub) == IndexOfFrom(s, sub, 0)

WhiteSpace == {" ", "\n", "\t", "\r"}

RECURSIVE TrimStart(_)
TrimStart(s) ==
    IF s # <<>> /\ Head(s) \in WhiteSpace THEN TrimStart(Tail(s)) ELSE s

RECURSIVE TrimEnd(_)
TrimEnd(s) ==
    IF s # <<>> /\ s[Len(s)] \in WhiteSpace
    THEN TrimEnd(SubSeq(s, 1, Len(s) - 1))
    ELSE s

\* String.prototype.trim()
Trim(s) == TrimEnd(TrimStart(s))

\* String.prototype.split(sep) for a one-character separator: always at least one
\* piece, an empty one between two adjacent separators.
RECURSIVE SplitFrom(_, _, _)
SplitFrom(s, sep, piece) ==
    IF s = <<>> THEN <<piece>>
    ELSE IF Head(s) = sep THEN <<piece>> \o SplitFrom(Tail(s), sep, <<>>)
    ELSE SplitFrom(Tail(s), sep, Append(piece, Head(s)))

Split(s, sep) == SplitFrom(s, sep, <<>>)

\* All sequences over S of length at most n.
SeqsUpTo(S, n) == UNION {[1..k -> S] : k \in 0..n}

\* The concatenation of a sequence of strings, sep between two neighbours.
RECURSIVE Join(_, _)
Join(ss, sep) ==
    IF ss = <<>> THEN <<>>
    ELSE IF Len(ss) = 1 THEN ss[1]
    ELSE ss[1] \o sep \o Join(Tail(ss), sep)

(***************************************************************************)
(* buildDefine (compiler.ts 30-43).                                        *)
(***************************************************************************)
buildDefine(t, s) ==
    LET pos == IndexOf(t, s)
    IN  IF pos >= 0
        THEN [key |-> Substring(t, 0, pos), value |-> SubstringFrom(t, pos + 1)]
        ELSE [key |-> t, value |-> <<"1">>]

\* The texts and splitters buildDefine is applied to.
DefineChars == {"A", "=", " ", ":"}
DefineTexts == SeqsUpTo(DefineChars, MaxTextLen)
Splitters == {<<"=">>, <<" ">>, <<":", ":">>, <<"=", " ">>}

NoDefine == [key |-> <<>>, value |-> <<>>]

(***************************************************************************)
(* splitCmdLine (imported from ./shared, compiler.ts 7): a shell-style     *)
(* tokenizer.  Tokens are separated by white space; a single- or double-   *)
(* quoted substring belongs to the token with its quotes removed, so that  *)
(* "" alone is an empty token; a backslash takes the next character as it  *)
(* is; a quote left open ends with the text.                               *)
(***************************************************************************)
Quotes == {"'", "\""}

\* s: the text left; tok: the token being built; inTok: whether a token has begun;
\* q: the open quote character, or "" outside quotes.
RECURSIVE Tokenize(_, _, _, _)
Tokenize(s, tok, inTok, q) ==
    IF s = <<>> THEN (IF inTok THEN <<tok>> ELSE <<>>)
    ELSE LET c == Head(s)
             rest == Tail(s)
         IN  IF q # ""
             THEN IF c = q THEN Tokenize(rest, tok, TRUE, "")
                  ELSE IF c = "\\" /\ q = "\"" /\ rest # <<>>
                       THEN Tokenize(Tail(rest), Append(tok, Head(rest)), TRUE, q)
                  ELSE Tokenize(rest, Append(tok, c), TRUE, q)
             ELSE IF c \in WhiteSpace
                  THEN (IF inTok THEN <<tok>> ELSE <<>>) \o Tokenize(rest, <<>>, FALSE, "")
                  ELSE IF c \in Quotes THEN Tokenize(rest, tok, TRUE, c)
                  ELSE IF c = "\\" /\ rest # <<>>
                       THEN Tokenize(Tail(rest), Append(tok, Head(rest)), TRUE, "")
                  ELSE Tokenize(rest, Append(tok, c), TRUE, "")

splitCmdLine(s) == Tokenize(s, <<>>, FALSE, "")

(***************************************************************************)
(* CompileConfig (compiler.ts 45-51) as a value: includes and              *)
(* forcedIncludes are sets of strings, defines a function from the keys of *)
(* the Map to its Define values.                                           *)
(***************************************************************************)
EmptyMap == [k \in {} |-> NoDefine]

\* Map.prototype.set(k, v)
MapSet(m, k, v) == [x \in (DOMAIN m) \cup {k} |-> IF x = k THEN v ELSE m[x]]

CompileConfig(inc, defs, forced, mode, std) ==
    [includes |-> inc, defines |-> defs, forcedIncludes |-> forced,
     intelliSenseMode |-> mode, standard |-> std]

(***************************************************************************)
(* addCompilerArgumentsToConfig (compiler.ts 63-93).                       *)
(***************************************************************************)
\* The loop of lines 69-92 over the tokens a, from left to right.  args.shift()
\* returns undefined on an empty array, and the loop's condition is the shifted
\* token itself: an empty token is falsy and ends the loop like undefined does.
RECURSIVE ConsumeArguments(_, _, _)
ConsumeArguments(a, flag, c) ==
    IF a = <<>> THEN c
    ELSE LET arg == Head(a)
             rest == Tail(a)
         IN  IF arg = <<>> THEN c
             ELSE IF Len(arg) < 2 \/ (CharAt(arg, 0) # "-" /\ CharAt(arg, 0) # "/")
                  THEN ConsumeArguments(rest, flag, c)
             ELSE IF CharAt(arg, 1) = "D"
                  THEN LET d == buildDefine(SubstringFrom(arg, 2), <<"=">>)
                       IN  ConsumeArguments(rest, flag,
                               [c EXCEPT !.defines = MapSet(@, d.key, d)])
             ELSE IF CharAt(arg, 1) = "I"
                  THEN ConsumeArguments(rest, flag,
                           [c EXCEPT !.includes = @ \cup {SubstringFrom(arg, 2)}])
             ELSE IF arg = flag
                  THEN IF rest = <<>> THEN c
                       ELSE IF Head(rest) # <<>>
                            THEN ConsumeArguments(Tail(rest), flag,
                                     [c EXCEPT !.forcedIncludes = @ \cup {Head(rest)}])
                            ELSE ConsumeArguments(Tail(rest), flag, c)
             ELSE ConsumeArguments(rest, flag, c)

\* Lines 64-68: nothing is done for an undefined or empty command line.
addCompilerArgumentsToConfig(line, flag, c) ==
    IF line = UndefinedString \/ line = <<>> THEN c
    ELSE ConsumeArguments(splitCmdLine(line), flag, c)

\* The forced-include flags of the two families (compiler.ts 243, 275).
ClangForceInclude == <<"-", "i", "n", "c", "l", "u", "d", "e">>
MsvcForceInclude == <<"-", "F", "I">>

(***************************************************************************)
(* The values of the variables an operation does not use.                  *)
(***************************************************************************)
DefineIdle == text = Undefined /\ splitter = Undefined /\ define = Undefined
ArgsIdle ==
    /\ cmdLine = Undefined /\ forceIncludeArg = Undefined
    /\ config = Undefined /\ config0 = Undefined /\ args = Undefined
ParseIdle == output = Undefined /\ defaults = Undefined /\ defaults0 = Undefined
CreateIdle ==
    /\ buildConfig = Undefined /\ fileType = Undefined /\ result = Undefined
    /\ error = Undefined /\ execs = 0
CompilerIdle == compiler = Undefined
CloneIdle == heap = <<>> /\ clones = <<>> /\ paths = <<>> /\ steps = 0

(***************************************************************************)
(* SpecDefine: buildDefine applied to every text and splitter.             *)
(***************************************************************************)
InitDefine ==
    /\ pc = "init"
    /\ text \in DefineTexts
    /\ splitter \in Splitters
    /\ define = Undefined
    /\ ArgsIdle /\ ParseIdle /\ CreateIdle /\ CompilerIdle /\ CloneIdle

BuildDefine ==
    /\ pc = "init"
    /\ define' = buildDefine(text, splitter)
    /\ pc' = "done"
    /\ UNCHANGED <<text, splitter, argsVars, parseVars, createVars, cloneVars>>

NextDefine == BuildDefine

SpecDefine == InitDefine /\ [][NextDefine]_vars

(***************************************************************************)
(* SpecArgs: addCompilerArgumentsToConfig applied to a command line, for   *)
(* either family's forced-include flag and a starting config.              *)
(***************************************************************************)
\* The words command lines are made of, as they are written on the line.
Words == {
    <<"-", "D", "A", "=", "x">>,
    <<"-", "D", "A">>,
    <<"/", "D", "B", "=", "y">>,
    <<"\"", "-", "D", "A", "=", "y", "\"">>,
    <<"-", "I", "p">>,
    ClangForceInclude,
    MsvcForceInclude,
    <<"\"", "\"">>,
    <<"f">> }

CmdLines == {Join(ws, <<" ">>) : ws \in SeqsUpTo(Words, MaxWords)}

ClangMode == "clang-x64"
MsvcMode == "msvc-x64"
CStandard == "c99"
CppStandard == "c++14"

StartConfigs == {
    CompileConfig({}, EmptyMap, {}, ClangMode, CppStandard),
    CompileConfig({<<"p", "0">>},
                  MapSet(MapSet(EmptyMap, <<"A">>, [key |-> <<"A">>, value |-> <<"0">>]),
                         <<"C">>, [key |-> <<"C">>, value |-> <<"0">>]),
                  {<<"g">>}, ClangMode, CppStandard) }

InitArgs ==
    /\ pc = "init"
    /\ cmdLine \in CmdLines \cup {UndefinedString}
    /\ forceIncludeArg \in {ClangForceInclude, MsvcForceInclude}
    /\ config \in StartConfigs
    /\ config0 = config
    /\ args = Undefined
    /\ DefineIdle /\ ParseIdle /\ CreateIdle /\ CompilerIdle /\ CloneIdle

AddCompilerArguments ==
    /\ pc = "init"
    /\ config' = addCompilerArgumentsToConfig(cmdLine, forceIncludeArg, config)
    /\ args' = IF cmdLine = UndefinedString \/ cmdLine = <<>> THEN <<>>
               ELSE splitCmdLine(cmdLine)
    /\ pc' = "done"
    /\ UNCHANGED <<cmdLine, forceIncludeArg, config0, defineVars, parseVars,
                   createVars, cloneVars>>

NextArgs == AddCompilerArguments

SpecArgs == InitArgs /\ [][NextArgs]_vars

(***************************************************************************)
(* Claims about buildDefine.                                               *)
(***************************************************************************)
\* The places (counted from 1) where sub occurs in s.
Occurrences(s, sub) ==
    {i \in 1..(Len(s) - Len(sub) + 1) : SubSeq(s, i, i + Len(sub) - 1) = sub}

FirstOccurrence(s, sub) ==
    CHOOSE i \in Occurrences(s, sub) : \A j \in Occurrences(s, sub) : i <= j

\* C7: for every text and every splitter, of one character or more, buildDefine
\* returns as key the text before the first occurrence of the splitter and as
\* value the text after the whole splitter; when the splitter does not occur, the
\* key is the entire text and the value is "1".
C7_KeyBeforeValueAfterSplitter ==
    pc = "done" =>
        IF Occurrences(text, splitter) = {}
        THEN define = [key |-> text, value |-> <<"1">>]
        ELSE LET p == FirstOccurrence(text, splitter)
             IN  define = [key |-> SubSeq(text, 1, p - 1),
                           value |-> SubSeq(text, p + Len(splitter), Len(text))]

(***************************************************************************)
(* Claims about addCompilerArgumentsToConfig.  In them every token is read, *)
(* from left to right, and the token after a forced-include flag is that   *)
(* flag's path, not a flag of its own.                                     *)
(***************************************************************************)
\* The positions of the tokens read as flags: not the paths of forced-include flags.
RECURSIVE FlagPositionsFrom(_, _, _)
FlagPositionsFrom(a, flag, i) ==
    IF i > Len(a) THEN {}
    ELSE {i} \cup FlagPositionsFrom(a, flag, IF a[i] = flag THEN i + 2 ELSE i + 1)

FlagPositions(a, flag) == FlagPositionsFrom(a, flag, 1)

\* Whether a token is a -D or /D flag (letter "D"), or a -I or /I flag (letter "I").
IsFlag(tok, letter) ==
    /\ Len(tok) >= 2
    /\ tok[1] \in {"-", "/"}
    /\ tok[2] = letter

\* What follows the two characters of the flag.
Remainder(tok) == SubSeq(tok, 3, Len(tok))

\* The macro key and value a -D token names: the value is the text after the first
\* "=", or "1" when there is none.
TokenKey(tok) ==
    LET r == Remainder(tok)
    IN  IF Occurrences(r, <<"=">>) = {} THEN r
        ELSE SubSeq(r, 1, FirstOccurrence(r, <<"=">>) - 1)

TokenValue(tok) ==
    LET r == Remainder(tok)
    IN  IF Occurrences(r, <<"=">>) = {} THEN <<"1">>
        ELSE SubSeq(r, FirstOccurrence(r, <<"=">>) + 1, Len(r))

DefinePositions(a, flag) == {i \in FlagPositions(a, flag) : IsFlag(a[i], "D")}
IncludePositions(a, flag) == {i \in FlagPositions(a, flag) : IsFlag(a[i], "I")}
ForcePositions(a, flag) == {i \in FlagPositions(a, flag) : a[i] = flag}

\* The last -D token for key k.
LastDefine(a, flag, k) ==
    LET P == {i \in DefinePositions(a, flag) : TokenKey(a[i]) = k}
    IN  CHOOSE i \in P : \A j \in P : j <= i

NamedKeys(a, flag) == {TokenKey(a[i]) : i \in DefinePositions(a, flag)}
NamedIncludes(a, flag) == {Remainder(a[i]) : i \in IncludePositions(a, flag)}

\* C1: after addCompilerArgumentsToConfig the defines map holds, for each macro key
\* named by some -D or /D token, one entry whose value is the one given by the last
\* such token for that key; every -I or /I token's remainder is in includes; keys
\* and include paths that no token names keep their prior entries.
C1_LastDefineWins ==
    pc = "done" =>
        /\ \A k \in NamedKeys(args, forceIncludeArg) :
              /\ k \in DOMAIN config.defines
              /\ config.defines[k] =
                    [key |-> k,
                     value |-> TokenValue(args[LastDefine(args, forceIncludeArg, k)])]
        /\ NamedIncludes(args, forceIncludeArg) \subseteq config.includes
        /\ \A k \in DOMAIN config0.defines \ NamedKeys(args, forceIncludeArg) :
              k \in DOMAIN config.defines /\ config.defines[k] = config0.defines[k]
        /\ config0.includes \subseteq config.includes

\* C8: a token equal to the forced-include flag consumes the next token as a path:
\* that token is added to forcedIncludes and is not itself interpreted as a -D or
\* -I flag; when the forced-include flag is the last token, the call leaves
\* forcedIncludes, includes and defines as the tokens before it left them.
C8_ForcedIncludeConsumesNext ==
    pc = "done" =>
        /\ \A i \in ForcePositions(args, forceIncludeArg) :
              i < Len(args) => args[i + 1] \in config.forcedIncludes
        /\ DOMAIN config.defines \subseteq
              (DOMAIN config0.defines) \cup NamedKeys(args, forceIncludeArg)
        /\ config.includes \subseteq
              config0.includes \cup NamedIncludes(args, forceIncludeArg)
        /\ Len(args) \in ForcePositions(args, forceIncludeArg) =>
              config = ConsumeArguments(SubSeq(args, 1, Len(args) - 1),
                                        forceIncludeArg, config0)

\* C9: every token of the command line is consumed from left to right: for every
\* token sequence, one with an empty token included, each -D or -I token that is
\* not consumed as a forced-include argument contributes its entry, whichever
\* tokens come before it.
C9_EveryTokenConsumed ==
    pc = "done" =>
        /\ \A i \in DefinePositions(args, forceIncludeArg) :
              TokenKey(args[i]) \in DOMAIN config.defines
        /\ \A i \in IncludePositions(args, forceIncludeArg) :
              Remainder(args[i]) \in config.includes

(***************************************************************************)
(* ClangCompiler.parseCompilerDefaults (compiler.ts 164-190).              *)
(***************************************************************************)
\* compiler.ts 13
FRAMEWORK_MARKER == <<" ", "(", "f", "r", "a", "m", "e", "w", "o", "r", "k", " ", "d", "i", "r", "e", "c", "t", "o", "r", "y", ")">>

IncludePrefix == <<"#", "i", "n", "c", "l", "u", "d", "e", " ">>
DefinePrefix == <<"#", "d", "e", "f", "i", "n", "e", " ">>

\* The loop of lines 168-189 over the lines ls, inIncludes carried from line to line.
RECURSIVE ParseLines(_, _, _)
ParseLines(ls, inIncludes, d) ==
    IF ls = <<>> THEN d
    ELSE LET line == Head(ls)
         IN  IF inIncludes /\ CharAt(line, 0) = " "
             THEN LET include == Trim(line)
                      path == IF EndsWith(include, FRAMEWORK_MARKER)
                              THEN Substring(include, 0,
                                             Len(include) - Len(FRAMEWORK_MARKER))
                              ELSE include
                  IN  ParseLines(Tail(ls), TRUE, [d EXCEPT !.includes = @ \cup {path}])
             ELSE IF StartsWith(line, IncludePrefix)
                  THEN ParseLines(Tail(ls), TRUE, d)
             ELSE IF StartsWith(line, DefinePrefix)
                  THEN LET def == buildDefine(Trim(SubstringFrom(line, 8)), <<" ">>)
                       IN  ParseLines(Tail(ls), FALSE,
                                      [d EXCEPT !.defines = MapSet(@, def.key, def)])
             ELSE ParseLines(Tail(ls), FALSE, d)

\* The same loop with the line that ends a listing dropped instead of evaluated.
RECURSIVE ParseLinesDroppingEnd(_, _, _)
ParseLinesDroppingEnd(ls, inIncludes, d) ==
    IF ls = <<>> THEN d
    ELSE LET line == Head(ls)
         IN  IF inIncludes
             THEN IF CharAt(line, 0) = " "
                  THEN LET include == Trim(line)
                           path == IF EndsWith(include, FRAMEWORK_MARKER)
                                   THEN Substring(include, 0,
                                                  Len(include) - Len(FRAMEWORK_MARKER))
                                   ELSE include
                       IN  ParseLinesDroppingEnd(Tail(ls), TRUE,
                               [d EXCEPT !.includes = @ \cup {path}])
                  ELSE ParseLinesDroppingEnd(Tail(ls), FALSE, d)
             ELSE IF StartsWith(line, IncludePrefix)
                  THEN ParseLinesDroppingEnd(Tail(ls), TRUE, d)
             ELSE IF StartsWith(line, DefinePrefix)
                  THEN LET def == buildDefine(Trim(SubstringFrom(line, 8)), <<" ">>)
                       IN  ParseLinesDroppingEnd(Tail(ls), FALSE,
                               [d EXCEPT !.defines = MapSet(@, def.key, def)])
             ELSE ParseLinesDroppingEnd(Tail(ls), FALSE, d)

parseCompilerDefaults_droppingEnd(out, d) ==
    ParseLinesDroppingEnd(Split(Trim(out), "\n"), FALSE, d)

\* Line 165 trims the whole text and splits it at line feeds; lines 167-189 scan.
parseCompilerDefaults(out, d) == ParseLines(Split(Trim(out), "\n"), FALSE, d)

(***************************************************************************)
(* SpecParse: parseCompilerDefaults applied to a captured text.            *)
(***************************************************************************)
\* The lines captured texts are made of.
OutputLines == {
    <<"#", "i", "n", "c", "l", "u", "d", "e", " ", "<", ">">>,
    <<" ", "#", "i", "n", "c", "l", "u", "d", "e", " ", "<", ">">>,
    <<" ", "/", "a">>,
    <<" ", "/", "f", " ", "(", "f", "r", "a", "m", "e", "w", "o", "r", "k", " ", "d", "i", "r", "e", "c", "t", "o", "r", "y", ")">>,
    <<"#", "d", "e", "f", "i", "n", "e", " ", "W", " ", "1">>,
    <<"E", "n", "d">>,
    <<" ">> }

Outputs == {Join(ls, <<"\n">>) : ls \in SeqsUpTo(OutputLines, MaxLines)}

StartDefaults == {
    CompileConfig({}, EmptyMap, {}, ClangMode, CppStandard),
    CompileConfig({<<"/", "0">>},
                  MapSet(EmptyMap, <<"V">>, [key |-> <<"V">>, value |-> <<"0">>]),
                  {}, ClangMode, CStandard) }

InitParse ==
    /\ pc = "init"
    /\ output \in Outputs
    /\ defaults \in StartDefaults
    /\ defaults0 = defaults
    /\ DefineIdle /\ ArgsIdle /\ CreateIdle /\ CompilerIdle /\ CloneIdle

ParseCompilerDefaults ==
    /\ pc = "init"
    /\ defaults' = parseCompilerDefaults(output, defaults)
    /\ pc' = "done"
    /\ UNCHANGED <<output, defaults0, defineVars, argsVars, createVars, cloneVars>>

NextParse == ParseCompilerDefaults

SpecParse == InitParse /\ [][NextParse]_vars

(***************************************************************************)
(* Claims about parseCompilerDefaults.                                     *)
(***************************************************************************)
Indented(line) == line # <<>> /\ line[1] = " "

\* The lines of ls that begin with a space and lie in an unbroken run of such lines
\* directly after a line starting with "#include ".
ListingLines(ls) ==
    {i \in 1..Len(ls) :
        /\ Indented(ls[i])
        /\ \E j \in 1..(i - 1) :
              /\ StartsWith(ls[j], IncludePrefix)
              /\ \A k \in (j + 1)..(i - 1) : Indented(ls[k])}

\* A trimmed line with one trailing framework marker removed.
WithoutMarker(t) ==
    IF EndsWith(t, FRAMEWORK_MARKER)
    THEN SubSeq(t, 1, Len(t) - Len(FRAMEWORK_MARKER))
    ELSE t

ListedIncludes(ls) == {WithoutMarker(Trim(ls[i])) : i \in ListingLines(ls)}

\* The "#define " lines of ls; none is indented, so each is evaluated as one even
\* when it is the line that ends a listing.
DefineLines(ls) == {i \in 1..Len(ls) : StartsWith(ls[i], DefinePrefix)}

MacroText(line) == Trim(SubSeq(line, Len(DefinePrefix) + 1, Len(line)))

MacroName(line) ==
    LET r == MacroText(line)
    IN  IF Occurrences(r, <<" ">>) = {} THEN r
        ELSE SubSeq(r, 1, FirstOccurrence(r, <<" ">>) - 1)

MacroValue(line) ==
    LET r == MacroText(line)
    IN  IF Occurrences(r, <<" ">>) = {} THEN <<"1">>
        ELSE SubSeq(r, FirstOccurrence(r, <<" ">>) + 1, Len(r))

DefinedMacros(ls) == {MacroName(ls[i]) : i \in DefineLines(ls)}

\* The last "#define " line for macro k.
LastDefineLine(ls, k) ==
    LET P == {i \in DefineLines(ls) : MacroName(ls[i]) = k}
    IN  CHOOSE i \in P : \A j \in P : j <= i

\* What the claim says of the parse of the lines ls.
ParsedAsListed(ls) ==
    /\ defaults.includes = defaults0.includes \cup ListedIncludes(ls)
    /\ DOMAIN defaults.defines = (DOMAIN defaults0.defines) \cup DefinedMacros(ls)
    /\ \A k \in DefinedMacros(ls) :
          defaults.defines[k] =
              [key |-> k, value |-> MacroValue(ls[LastDefineLine(ls, k)])]
    /\ \A k \in (DOMAIN defaults0.defines) \ DefinedMacros(ls) :
          defaults.defines[k] = defaults0.defines[k]

\* C2 as stated: the lines are those of the captured text itself.
C2_ListingOfCapturedLines ==
    pc = "done" => ParsedAsListed(Split(output, "\n"))

\* C2, amended: for every captured text, the parser adds to includes exactly the
\* trimmed contents (one trailing framework marker removed) of the indented lines
\* in an unbroken run directly after a "#include " line, where the lines are those
\* of the text with its leading and trailing white space removed; the line that
\* ends a run is still evaluated, so a "#define " line there is recorded.
C2_ListingOfTrimmedLines ==
    pc = "done" => ParsedAsListed(Split(Trim(output), "\n"))

\* A "#define " line directly after a listing has been parsed.
C2_Witness ==
    /\ pc = "done"
    /\ LET ls == Split(Trim(output), "\n")
       IN  \E i \in DefineLines(ls) :
              /\ i - 1 \in ListingLines(ls)
              /\ MacroName(ls[i]) \notin DOMAIN defaults0.defines
              /\ MacroName(ls[i]) \in DOMAIN defaults.defines
              /\ ListedIncludes(ls) \ defaults0.includes # {}

(***************************************************************************)
(* Compiler.create and the two fetch strategies (compiler.ts 121-136,      *)
(* 192-240, 258-272).                                                      *)
(***************************************************************************)
\* Map.prototype.get(k): undefined for a key the map does not hold.
MapGet(m, k) == IF k \in DOMAIN m THEN m[k] ELSE Undefined

\* The Errors thrown, by their messages: a message is the sequence of the pieces
\* its template joins.
NoError == [message |-> <<>>]
UnableToDetermine == [message |-> <<"Unable to determine compiler types.">>]
UnknownCompilerType(t) == [message |-> <<"Unknown compiler type ", t, ".">>]
EmptyResult == [message |-> <<"Compiler returned empty includes or defined.">>]
\* The rejection of exec, whatever its message.
ExecFailure == [message |-> <<"exec failed">>]

NoCompiler == [kind |-> "none"]
NoResult == [state |-> "none"]

\* The constructor (lines 101-106) called by a subclass.
NewCompiler(kind, type, d) == [kind |-> kind, type |-> type, defaults |-> d]

Standard(type) == IF type = "c" THEN CStandard ELSE CppStandard

\* MsvcCompiler.fetch without the check of lines 267-269.
MsvcFetch_unchecked(type, compilerType) ==
    LET d == CompileConfig({}, EmptyMap, {},
                           IF compilerType = "msvc" THEN MsvcMode ELSE ClangMode,
                           Standard(type))
    IN  [pc |-> "done", defaults |-> d, error |-> NoError,
         compiler |-> NewCompiler("MsvcCompiler", type, d)]

\* MsvcCompiler.fetch (lines 258-272): no await, so it settles within the call.
MsvcFetch(type, compilerType) ==
    LET d == CompileConfig({}, EmptyMap, {},
                           IF compilerType = "msvc" THEN MsvcMode ELSE ClangMode,
                           Standard(type))
    IN  IF d.includes = {} \/ DOMAIN d.defines = {}
        THEN [pc |-> "done", defaults |-> d, error |-> EmptyResult,
              compiler |-> NoCompiler]
        ELSE [pc |-> "done", defaults |-> d, error |-> NoError,
              compiler |-> NewCompiler("MsvcCompiler", type, d)]

\* Compiler.create (lines 121-136) up to the first await of the strategy it calls:
\* ClangCompiler.fetch suspends at line 198, everything else settles at once.
Suspended == [pc |-> "getCompiler", defaults |-> Undefined, error |-> NoError,
              compiler |-> NoCompiler]
Thrown(e) == [pc |-> "done", defaults |-> Undefined, error |-> e,
              compiler |-> NoCompiler]

\* create with line 123 testing for undefined alone.
create_strictUndefined(bc, type) ==
    LET compilerType == MapGet(bc, "CC_TYPE")
    IN  IF compilerType = Undefined THEN Thrown(UnableToDetermine)
        ELSE IF compilerType = "clang" THEN Suspended
        ELSE IF compilerType \in {"clang-cl", "msvc"} THEN MsvcFetch(type, compilerType)
        ELSE Thrown(UnknownCompilerType(compilerType))

\* Line 123: !compilerType holds of undefined and of the empty string.
create(bc, type) ==
    LET compilerType == MapGet(bc, "CC_TYPE")
    IN  IF compilerType = Undefined \/ compilerType = "" THEN Thrown(UnableToDetermine)
        ELSE IF compilerType = "clang" THEN Suspended
        ELSE IF compilerType \in {"clang-cl", "msvc"} THEN MsvcFetch(type, compilerType)
        ELSE Thrown(UnknownCompilerType(compilerType))

\* ClangCompiler.fetch, lines 193-215: the command exec is given.
DefaultCmd(override, command, type, platform, sdk) ==
    (IF override # <<>> THEN override ELSE command)
    \o (IF type = "cpp" THEN <<"-std=c++14", "-xc++">> ELSE <<"-std=gnu99", "-xc">>)
    \o (IF platform = "darwin" /\ sdk # Undefined THEN <<"-isysroot", sdk>> ELSE <<>>)
    \o <<"-Wp,-v", "-E", "-dD", "/dev/null">>

\* Lines 220-235 with line 231 failing only when both are empty.
ClangFetchResult_bothEmpty(res, type) ==
    LET fresh == CompileConfig({}, EmptyMap, {}, ClangMode, Standard(type))
        d == parseCompilerDefaults(res.stderr, parseCompilerDefaults(res.stdout, fresh))
    IN  IF d.includes = {} /\ DOMAIN d.defines = {}
        THEN [pc |-> "done", defaults |-> d, error |-> EmptyResult,
              compiler |-> NoCompiler]
        ELSE [pc |-> "done", defaults |-> d, error |-> NoError,
              compiler |-> NewCompiler("ClangCompiler", type, d)]

\* ClangCompiler.fetch, lines 220-235, once exec has resolved with res.
ClangFetchResult(res, type) ==
    LET fresh == CompileConfig({}, EmptyMap, {}, ClangMode, Standard(type))
        d == parseCompilerDefaults(res.stderr, parseCompilerDefaults(res.stdout, fresh))
    IN  IF d.includes = {} \/ DOMAIN d.defines = {}
        THEN [pc |-> "done", defaults |-> d, error |-> EmptyResult,
              compiler |-> NoCompiler]
        ELSE [pc |-> "done", defaults |-> d, error |-> NoError,
              compiler |-> NewCompiler("ClangCompiler", type, d)]

(***************************************************************************)
(* SpecCreate: one call of Compiler.create, to its settling.               *)
(***************************************************************************)
CompilerTypes == {"clang", "clang-cl", "msvc", "gcc", "Clang", ""}
KnownTypes == {"clang", "clang-cl", "msvc"}

BuildConfigs ==
    {[k \in {} |-> ""]} \cup {[k \in {"CC_TYPE"} |-> t] : t \in CompilerTypes}

FileTypes == {"c", "cpp"}

Command == <<"cc">>
Overrides == {<<>>, <<"/opt/cc">>}

\* The lines the two captured streams are made of.
StreamLines == {
    <<"#", "i", "n", "c", "l", "u", "d", "e", " ", "<", ">">>,
    <<" ", "/", "a">>,
    <<"#", "d", "e", "f", "i", "n", "e", " ", "W", " ", "1">> }

Streams == {Join(ls, <<"\n">>) : ls \in SeqsUpTo(StreamLines, MaxStreamLines)}

InitCreate ==
    /\ pc = "init"
    /\ buildConfig \in BuildConfigs
    /\ fileType \in FileTypes
    /\ result = NoResult
    /\ compiler = NoCompiler
    /\ error = NoError
    /\ execs = 0
    /\ defaults = Undefined /\ defaults0 = Undefined /\ output = Undefined
    /\ DefineIdle /\ ArgsIdle /\ CloneIdle

\* The call itself.
Create ==
    /\ pc = "init"
    /\ LET r == create(buildConfig, fileType)
       IN  /\ pc' = r.pc
           /\ defaults' = r.defaults
           /\ error' = r.error
           /\ compiler' = r.compiler
    /\ UNCHANGED <<buildConfig, fileType, result, execs, output, defaults0,
                   defineVars, argsVars, cloneVars>>

\* config.getCompiler resolves (line 198), the command is completed and exec is
\* called with it (line 218): one process is launched.
ClangExec ==
    /\ pc = "getCompiler"
    /\ \E override \in Overrides, platform \in {"darwin", "linux"},
          sdk \in {Undefined, "/sdk"} :
          result' = [state |-> "pending",
                     cmd |-> DefaultCmd(override, Command, fileType, platform, sdk)]
    /\ execs' = execs + 1
    /\ pc' = "exec"
    /\ UNCHANGED <<buildConfig, fileType, compiler, error, parseVars,
                   defineVars, argsVars, cloneVars>>

\* exec rejects and fetch launches the process again.
ClangExecRejected_retry ==
    /\ pc = "exec"
    /\ execs' = execs + 1
    /\ UNCHANGED <<pc, result, buildConfig, fileType, compiler, error, parseVars,
                   defineVars, argsVars, cloneVars>>

\* exec rejects: the catch of lines 236-239 logs and throws the same error.
ClangExecRejected ==
    /\ pc = "exec"
    /\ result' = [state |-> "rejected", cmd |-> result.cmd]
    /\ error' = ExecFailure
    /\ pc' = "done"
    /\ UNCHANGED <<buildConfig, fileType, compiler, execs, parseVars,
                   defineVars, argsVars, cloneVars>>

\* exec resolves with the two captured streams: lines 220-235.
ClangExecResolved ==
    /\ pc = "exec"
    /\ \E out \in Streams, err \in Streams :
          /\ result' = [state |-> "resolved", cmd |-> result.cmd,
                        stdout |-> out, stderr |-> err]
          /\ LET r == ClangFetchResult(result', fileType)
             IN  /\ pc' = r.pc
                 /\ defaults' = r.defaults
                 /\ error' = r.error
                 /\ compiler' = r.compiler
    /\ UNCHANGED <<buildConfig, fileType, execs, output, defaults0,
                   defineVars, argsVars, cloneVars>>

NextCreate == Create \/ ClangExec \/ ClangExecRejected \/ ClangExecResolved

SpecCreate == InitCreate /\ [][NextCreate]_vars

(***************************************************************************)
(* Claims about Compiler.create and the fetch strategies.                  *)
(***************************************************************************)
CompilerType == MapGet(buildConfig, "CC_TYPE")

\* C3: the probing strategy never produces a compiler object whose defaults have
\* an empty includes set or an empty defines map: when parsing stdout and stderr
\* leaves either one empty, fetch fails with the empty-result error and create
\* returns nothing.
C3_NoEmptyProbedDefaults ==
    /\ compiler.kind = "ClangCompiler" =>
          /\ compiler.defaults.includes # {}
          /\ DOMAIN compiler.defaults.defines # {}
    /\ (pc = "done" /\ result.state = "resolved"
            /\ (defaults.includes = {} \/ DOMAIN defaults.defines = {})) =>
          error = EmptyResult /\ compiler = NoCompiler

\* The probe ran, found include paths and no macro, and create failed.
C3_Witness ==
    /\ pc = "done"
    /\ result.state = "resolved"
    /\ defaults.includes # {}
    /\ DOMAIN defaults.defines = {}
    /\ error = EmptyResult
    /\ compiler = NoCompiler

\* C4 as stated: for every family identifier present in the build configuration
\* other than clang, clang-cl and msvc, the empty string included, create fails
\* with the unknown-compiler-type error naming that identifier; only an absent
\* identifier gives the unable-to-determine error.
C4_UnknownTypeNamedEvenWhenEmpty ==
    pc = "done" =>
        /\ (CompilerType # Undefined /\ CompilerType \notin KnownTypes) =>
              /\ error.message = <<"Unknown compiler type ", CompilerType, ".">>
              /\ compiler = NoCompiler
        /\ error = UnableToDetermine => CompilerType = Undefined

\* C4, amended: for every non-empty family identifier present in the build
\* configuration other than clang, clang-cl and msvc, create fails with the
\* unknown-compiler-type error naming that identifier; an absent identifier and
\* the empty string both give the unable-to-determine error, and nothing else does.
C4_UnknownTypeNamed ==
    pc = "done" =>
        /\ (CompilerType # Undefined /\ CompilerType # ""
                /\ CompilerType \notin KnownTypes) =>
              /\ error.message = <<"Unknown compiler type ", CompilerType, ".">>
              /\ compiler = NoCompiler
        /\ (CompilerType = Undefined \/ CompilerType = "") =>
              error = UnableToDetermine /\ compiler = NoCompiler
        /\ error = UnableToDetermine =>
              (CompilerType = Undefined \/ CompilerType = "")

\* create has failed on the identifier gcc, which its error names.
C4_Witness ==
    /\ pc = "done"
    /\ CompilerType = "gcc"
    /\ error = UnknownCompilerType("gcc")

\* C6: the static strategy always fails: for either family variant and either
\* language kind, MsvcCompiler.fetch raises the empty-result error and no compiler
\* object is returned, so create never succeeds for msvc or clang-cl.
C6_StaticStrategyAlwaysFails ==
    /\ compiler.kind # "MsvcCompiler"
    /\ (pc = "done" /\ CompilerType \in {"msvc", "clang-cl"}) =>
          error = EmptyResult /\ compiler = NoCompiler

\* create has settled for clang-cl, with the empty-result error.
C6_Witness ==
    /\ pc = "done"
    /\ CompilerType = "clang-cl"
    /\ defaults.intelliSenseMode = ClangMode
    /\ error = EmptyResult

\* C10: a call of the probing strategy's fetch launches the external process
\* exactly once: when the process fails or its parsed output is empty, fetch fails
\* with that error, launches no second process and returns no compiler object;
\* create launches no process for a missing, unknown or static-family identifier.
C10_OneLaunchPerFetch ==
    /\ execs <= 1
    /\ (pc = "done" /\ CompilerType = "clang") =>
          /\ execs = 1
          /\ result.state = "rejected" => error = ExecFailure /\ compiler = NoCompiler
          /\ (result.state = "resolved"
                  /\ (defaults.includes = {} \/ DOMAIN defaults.defines = {})) =>
                error = EmptyResult /\ compiler = NoCompiler
    /\ (pc = "done" /\ CompilerType # "clang") => execs = 0 /\ result = NoResult

\* The one process launched has failed, and so has create.
C10_Witness ==
    /\ pc = "done"
    /\ CompilerType = "clang"
    /\ result.state = "rejected"
    /\ execs = 1
    /\ error = ExecFailure

(***************************************************************************)
(* The compiler object and its clone-on-read accessors (compiler.ts 53-61, *)
(* 142-148), with objects by address: a CompileConfig refers to its Set    *)
(* and Map objects, a Map to its Define objects.                           *)
(***************************************************************************)
SetObject(elems) == [kind |-> "Set", elems |-> elems]
MapObject(entries) == [kind |-> "Map", entries |-> entries]
DefineObject(d) == [kind |-> "Define", key |-> d.key, value |-> d.value]

\* The elements of a set in some order.
RECURSIVE SetToSeq(_)
SetToSeq(S) ==
    IF S = {} THEN <<>>
    ELSE LET x == CHOOSE y \in S : TRUE
         IN  <<x>> \o SetToSeq(S \ {x})

IndexIn(seq, x) == CHOOSE i \in 1..Len(seq) : seq[i] = x

\* The CompileConfig value the references c hold in heap h.
ConfigValue(h, c) ==
    CompileConfig(h[c.includes].elems,
                  [k \in DOMAIN h[c.defines].entries |->
                      [key |-> h[h[c.defines].entries[k]].key,
                       value |-> h[h[c.defines].entries[k]].value]],
                  h[c.forcedIncludes].elems,
                  c.intelliSenseMode, c.standard)

\* A CompileConfig literal with the value v, allocated at the end of h (lines
\* 220-226 and the Define objects of line 187).
AllocConfig(h, v) ==
    LET n == Len(h)
        keys == SetToSeq(DOMAIN v.defines)
    IN  [heap |-> h \o <<SetObject(v.includes),
                         MapObject([k \in DOMAIN v.defines |-> n + 3 + IndexIn(keys, k)]),
                         SetObject(v.forcedIncludes)>>
                    \o [i \in 1..Len(keys) |-> DefineObject(v.defines[keys[i]])],
         config |-> [includes |-> n + 1, defines |-> n + 2, forcedIncludes |-> n + 3,
                     intelliSenseMode |-> v.intelliSenseMode,
                     standard |-> v.standard]]

\* cloneConfig (lines 53-61): new Set(...) and new Map(...) copy the container;
\* the copied Map holds the same Define objects.
cloneConfig(h, c) ==
    LET n == Len(h)
    IN  [heap |-> h \o <<SetObject(h[c.includes].elems),
                         MapObject(h[c.defines].entries),
                         SetObject(h[c.forcedIncludes].elems)>>,
         config |-> [includes |-> n + 1, defines |-> n + 2, forcedIncludes |-> n + 3,
                     intelliSenseMode |-> c.intelliSenseMode,
                     standard |-> c.standard]]

\* addCompilerArgumentsToConfig (lines 63-93) on the config c of heap h: the two
\* Sets are added to in place, and every key a -D sets gets a new Define object.
addCompilerArgumentsToHeap(h, c, line, flag) ==
    LET before == ConfigValue(h, c)
        after == addCompilerArgumentsToConfig(line, flag, before)
        set == addCompilerArgumentsToConfig(line, flag,
                   [before EXCEPT !.defines = EmptyMap]).defines
        keys == SetToSeq(DOMAIN set)
        n == Len(h)
    IN  [h EXCEPT ![c.includes].elems = after.includes,
                  ![c.forcedIncludes].elems = after.forcedIncludes,
                  ![c.defines].entries =
                      [k \in DOMAIN after.defines |->
                          IF k \in DOMAIN set THEN n + IndexIn(keys, k) ELSE @[k]]]
        \o [i \in 1..Len(keys) |-> DefineObject(after.defines[keys[i]])]

(***************************************************************************)
(* SpecClone: a constructed compiler object, its accessors, and callers    *)
(* that mutate what the accessors returned.                                *)
(***************************************************************************)
ProbedDefaults == {
    CompileConfig({<<"/", "a">>},
                  MapSet(EmptyMap, <<"W">>, [key |-> <<"W">>, value |-> <<"1">>]),
                  {}, ClangMode, CppStandard),
    CompileConfig({<<"/", "a">>, <<"/", "f">>},
                  MapSet(MapSet(EmptyMap, <<"W">>, [key |-> <<"W">>, value |-> <<"1">>]),
                         <<"V">>, [key |-> <<"V">>, value |-> <<"1">>]),
                  {}, ClangMode, CStandard) }

\* What callers add to the returned Sets and Maps.
CallerPaths == {<<"/", "x">>}
CallerKeys == {<<"W">>, <<"X">>}
CallerValues == {<<"2">>}
CallerCmdLines == {
    <<"-", "D", "W", "=", "3", " ", "-", "I", "/", "y">>,
    <<"-", "i", "n", "c", "l", "u", "d", "e", " ", "f">> }

InitClone ==
    /\ pc = "constructed"
    /\ \E v \in ProbedDefaults :
          LET a == AllocConfig(<<>>, v)
          IN  /\ heap = a.heap
              /\ compiler = NewCompiler("ClangCompiler", "cpp", a.config)
              /\ defaults0 = v
    /\ clones = <<>>
    /\ paths = <<>>
    /\ steps = 0
    /\ defaults = Undefined /\ output = Undefined
    /\ DefineIdle /\ ArgsIdle /\ CreateIdle

\* The Set and Map objects the accessors have returned.
ReturnedSets ==
    {clones[i].includes : i \in 1..Len(clones)}
        \cup {clones[i].forcedIncludes : i \in 1..Len(clones)}
        \cup {paths[i] : i \in 1..Len(paths)}
ReturnedMaps == {clones[i].defines : i \in 1..Len(clones)}

CloneFrame == <<pc, compiler, defaults0, defaults, output, defineVars, argsVars,
                createVars>>

\* getDefaultConfiguration (lines 142-144)
GetDefaultConfiguration ==
    /\ steps < MaxSteps
    /\ Len(clones) < MaxClones
    /\ LET r == cloneConfig(heap, compiler.defaults)
       IN  heap' = r.heap /\ clones' = Append(clones, r.config)
    /\ steps' = steps + 1
    /\ UNCHANGED <<paths, CloneFrame>>

\* getIncludePaths (lines 146-148)
GetIncludePaths ==
    /\ steps < MaxSteps
    /\ Len(paths) < MaxClones
    /\ heap' = Append(heap, SetObject(heap[compiler.defaults.includes].elems))
    /\ paths' = Append(paths, Len(heap) + 1)
    /\ steps' = steps + 1
    /\ UNCHANGED <<clones, CloneFrame>>

\* A caller's Set.prototype.add on a returned Set.
CallerSetAdd ==
    /\ steps < MaxSteps
    /\ \E a \in ReturnedSets, e \in CallerPaths :
          heap' = [heap EXCEPT ![a].elems = @ \cup {e}]
    /\ steps' = steps + 1
    /\ UNCHANGED <<clones, paths, CloneFrame>>

\* A caller's Set.prototype.delete on a returned Set.
CallerSetDelete ==
    /\ steps < MaxSteps
    /\ \E a \in ReturnedSets : \E e \in heap[a].elems :
          heap' = [heap EXCEPT ![a].elems = @ \ {e}]
    /\ steps' = steps + 1
    /\ UNCHANGED <<clones, paths, CloneFrame>>

\* A caller's Map.prototype.set on a returned Map, with a Define object of its own.
CallerMapSet ==
    /\ steps < MaxSteps
    /\ \E m \in ReturnedMaps, k \in CallerKeys, v \in CallerValues :
          heap' = Append([heap EXCEPT ![m].entries = MapSet(@, k, Len(heap) + 1)],
                         DefineObject([key |-> k, value |-> v]))
    /\ steps' = steps + 1
    /\ UNCHANGED <<clones, paths, CloneFrame>>

\* A caller's Map.prototype.delete on a returned Map.
CallerMapDelete ==
    /\ steps < MaxSteps
    /\ \E m \in ReturnedMaps : \E k \in DOMAIN heap[m].entries :
          heap' = [heap EXCEPT ![m].entries =
                      [x \in (DOMAIN @) \ {k} |-> @[x]]]
    /\ steps' = steps + 1
    /\ UNCHANGED <<clones, paths, CloneFrame>>

\* A caller's assignment to the value field of a Define it got from a returned Map
\* (the fields of Define, lines 25-28, are writable).
CallerDefineWrite ==
    /\ steps < MaxSteps
    /\ \E m \in ReturnedMaps : \E k \in DOMAIN heap[m].entries, v \in CallerValues :
          heap' = [heap EXCEPT ![heap[m].entries[k]].value = v]
    /\ steps' = steps + 1
    /\ UNCHANGED <<clones, paths, CloneFrame>>

\* ClangCompiler.addCompilerArgumentsToConfig (lines 242-244) on a returned clone.
AddCompilerArgumentsToClone ==
    /\ steps < MaxSteps
    /\ \E i \in 1..Len(clones), line \in CallerCmdLines :
          heap' = addCompilerArgumentsToHeap(heap, clones[i], line, ClangForceInclude)
    /\ steps' = steps + 1
    /\ UNCHANGED <<clones, paths, CloneFrame>>

NextClone ==
    \/ GetDefaultConfiguration
    \/ GetIncludePaths
    \/ CallerSetAdd
    \/ CallerSetDelete
    \/ CallerMapSet
    \/ CallerMapDelete
    \/ CallerDefineWrite
    \/ AddCompilerArgumentsToClone

SpecClone == InitClone /\ [][NextClone]_vars

(***************************************************************************)
(* Claims about the defaults of a compiler object.                         *)
(***************************************************************************)
Containers(c) == {c.includes, c.defines, c.forcedIncludes}

\* The defaults and every returned value, each with the containers it holds.
Holders ==
    {<<"defaults", 0, Containers(compiler.defaults)>>}
        \cup {<<"clone", i, Containers(clones[i])>> : i \in 1..Len(clones)}
        \cup {<<"paths", i, {paths[i]}>> : i \in 1..Len(paths)}

\* C5: the defaults of a compiler object never change after construction: after
\* any sequence of getDefaultConfiguration, getIncludePaths, mutation of the
\* returned values and addCompilerArgumentsToConfig on returned clones, the
\* defaults' includes, defines and forcedIncludes equal what they were when the
\* object was constructed, and no two returned values share a container.
C5_DefaultsNeverChange ==
    /\ ConfigValue(heap, compiler.defaults) = defaults0
    /\ \A x, y \in Holders : x # y => x[3] \cap y[3] = {}
====
